---- MODULE Spec2Model ----
(***************************************************************************)
(* Model of the Drive backup scripts weekly_backup.py (full-tree clone,    *)
(* duplicate guard, back-off wrapper, rotation) and main.py (daily backup  *)
(* of the gathered spreadsheets).  In the weekly script names are          *)
(* sequences of one-character strings so that the                          *)
(* regular expression of canonical() and the date format of the snapshot   *)
(* folders are computed, not assumed.                                      *)
(***************************************************************************)
EXTENDS Integers, Sequences, FiniteSets, TLC

VARIABLES
    \* ---- canonical() applied to one name (SpecCanon) ----
    cName,      \* the name given to canonical()
    cPhase,     \* which applications have been made
    cKey,       \* canonical(name)
    cAgain,     \* canonical(canonical(name))
    cCopyOf,    \* canonical("Copy of " + name)
    cCopiaDe,   \* canonical("Copia de " + name)
    cMarked,    \* canonical(name with " (2)" inserted before its extension)
    \* ---- one call of gapi_execute(req, max_tries) (SpecRetry) ----
    gMaxTries,  \* the max_tries argument
    gAttempt,   \* the loop variable attempt
    gDelay,     \* the local delay
    gOuts,      \* the outcomes of req.execute() so far, one per attempt
    gWaits,     \* the base delays slept so far
    gSleeps,    \* the arguments of time.sleep so far, in tenths of a second
    gStatus,    \* "running", "returned" or "raised"
    \* ---- one run of weekly_backup.main (Spec) ----
    pc,          \* where main is
    dst,         \* the items under DEST_FOLDER_ID, by id
    dated,       \* rotate_backups: the sorted list dated
    rotI,        \* rotate_backups: index in dated of the next folder to delete
    backup_root, \* main: id of the snapshot folder created
    srcI,        \* main: index of the current source in dict.fromkeys(SOURCES)
    stack,       \* the active calls of clone_folder, the innermost last
    calls,       \* the create, copy and delete calls issued, with their results
    returns,     \* what each clone_folder call returned
    failedAt,    \* the call whose exception ended the run
    \* ---- one run of main.py's main (SpecDaily) ----
    mPc,             \* where main is
    tree,            \* the children of each source folder, as the service lists them
    old,             \* the children of each folder of today's earlier backup
    del_stack,       \* the active calls of delete_folder_recursive, the innermost last
    deleted,         \* the ids files().delete was called for, in order
    queue,           \* gather: the deque of folder ids
    visited_folders, \* gather: the set visited_folders
    found,           \* gather: the dict found, as the sequence of its values
    fid,             \* gather: the folder being listed
    page_token,      \* gather: the page to ask for next
    listed,          \* gather: the list calls made, as (folder, pageToken)
    mI,              \* main: index in files of the file of the current pass
    backup,          \* the items created in the new backup folder
    mLast            \* the call that failed last, "" when none did

canonVars == <<cName, cPhase, cKey, cAgain, cCopyOf, cCopiaDe, cMarked>>
retryVars == <<gMaxTries, gAttempt, gDelay, gOuts, gWaits, gSleeps, gStatus>>
runVars == <<pc, dst, dated, rotI, backup_root, srcI, stack, calls, returns, failedAt>>
dailyVars == <<mPc, tree, old, del_stack, deleted, queue, visited_folders, found, fid,
               page_token, listed, mI, backup, mLast>>
vars == <<canonVars, retryVars, runVars, dailyVars>>
notCanon == <<retryVars, runVars, dailyVars>>
notRetry == <<canonVars, runVars, dailyVars>>
notRun == <<canonVars, retryVars, dailyVars>>
notDaily == <<canonVars, retryVars, runVars>>

(***************************************************************************)
(* Bounds of the model.                                                    *)
(***************************************************************************)
MaxTokens == 3      \* a generated name is the concatenation of 1..MaxTokens tokens
MaxTries == 3       \* gapi_execute is explored for max_tries in 0..MaxTries
MaxOld == 7         \* a run starts with 0..MaxOld dated snapshots of earlier weeks
ChunkSize == 2      \* the service lists a folder ChunkSize children per page
MaxFaults == 2      \* at most MaxFaults create, copy and delete calls of a run fail

(***************************************************************************)
(* Characters.                                                             *)
(***************************************************************************)
UpperChars == <<"A","B","C","D","E","F","G","H","I","J","K","L","M",
                "N","O","P","Q","R","S","T","U","V","W","X","Y","Z">>
LowerChars == <<"a","b","c","d","e","f","g","h","i","j","k","l","m",
                "n","o","p","q","r","s","t","u","v","w","x","y","z">>
Digits == {"0","1","2","3","4","5","6","7","8","9"}

\* str.lower() on one character
LowerChar(c) ==
    IF \E i \in 1..Len(UpperChars) : UpperChars[i] = c
    THEN LowerChars[CHOOSE i \in 1..Len(UpperChars) : UpperChars[i] = c]
    ELSE c

\* str.lower()
Lower(s) == [i \in 1..Len(s) |-> LowerChar(s[i])]

\* str.strip(): drop leading and trailing white space
Strip(s) ==
    LET keep == {i \in 1..Len(s) : s[i] # " "}
    IN  IF keep = {} THEN <<>>
        ELSE LET a == CHOOSE i \in keep : \A j \in keep : i <= j
                 b == CHOOSE i \in keep : \A j \in keep : i >= j
             IN  SubSeq(s, a, b)

(***************************************************************************)
(* canon_rx = ^(?:(?:Copy of |Copia de )+)?(.+?)(?: \(\d+\))?(\.[^.]+)?$   *)
(* with re.I, matched the way the backtracking matcher does: the prefix    *)
(* group greedy, the stem lazy, the marker and the extension optional and  *)
(* tried present before absent.                                            *)
(***************************************************************************)
CopyOfLit  == <<"C","o","p","y"," ","o","f"," ">>
CopiaDeLit == <<"C","o","p","i","a"," ","d","e"," ">>

\* the literal lit at position i of name, ignoring case (re.I)
MatchesCI(name, i, lit) ==
    /\ i + Len(lit) - 1 <= Len(name)
    /\ \A j \in 1..Len(lit) : LowerChar(name[i + j - 1]) = LowerChar(lit[j])

\* a pattern that knew the English prefix only
PrefixLenAtCopyOfOnly(name, i) ==
    IF MatchesCI(name, i, CopyOfLit) THEN Len(CopyOfLit) ELSE 0

\* length of the alternative (Copy of |Copia de ) matching at i, 0 if none
PrefixLenAt(name, i) ==
    IF MatchesCI(name, i, CopyOfLit) THEN Len(CopyOfLit)
    ELSE IF MatchesCI(name, i, CopiaDeLit) THEN Len(CopiaDeLit)
    ELSE 0

\* the positions where the stem may start: after 0, 1, 2, ... prefixes
RECURSIVE PrefixEnds(_, _)
PrefixEnds(name, i) ==
    IF PrefixLenAt(name, i) = 0 THEN <<i>>
    ELSE <<i>> \o PrefixEnds(name, i + PrefixLenAt(name, i))

\* index of the ")" closing a marker " (digits)" that starts at i, 0 if none
MarkerEnd(name, i) ==
    LET ends == {j \in (i + 3)..Len(name) :
                    /\ name[i] = " "
                    /\ name[i + 1] = "("
                    /\ name[j] = ")"
                    /\ \A k \in (i + 2)..(j - 1) : name[k] \in Digits}
    IN  IF ends = {} THEN 0 ELSE CHOOSE j \in ends : TRUE

\* (\.[^.]+)$ at position i: a dot, then one or more non-dots up to the end
IsExtAt(name, i) ==
    /\ i < Len(name)
    /\ name[i] = "."
    /\ \A k \in (i + 1)..Len(name) : name[k] # "."

\* With the stem ending at e: where the extension starts (Len+1: no
\* extension), or 0 when (?: \(\d+\))?(\.[^.]+)?$ does not match the rest.
TailExt(name, e) ==
    LET m == MarkerEnd(name, e + 1)
    IN  IF m > 0 /\ IsExtAt(name, m + 1) THEN m + 1
        ELSE IF m > 0 /\ m = Len(name) THEN Len(name) + 1
        ELSE IF IsExtAt(name, e + 1) THEN e + 1
        ELSE IF e = Len(name) THEN Len(name) + 1
        ELSE 0

\* shortest stem starting at p whose rest matches, 0 if none (lazy .+?)
StemEnd(name, p) ==
    LET ok == {e \in p..Len(name) : TailExt(name, e) # 0}
    IN  IF ok = {} THEN 0 ELSE CHOOSE e \in ok : \A f \in ok : e <= f

\* canon_rx.match(name).groups() as [ok, from, to, ext]: the stem is
\* name[from..to] and the extension name[ext..Len]
Groups(name) ==
    LET ps   == PrefixEnds(name, 1)
        good == {k \in 1..Len(ps) : StemEnd(name, ps[k]) # 0}
    IN  IF good = {} THEN [ok |-> FALSE, from |-> 0, to |-> 0, ext |-> 0]
        ELSE LET k == CHOOSE x \in good : \A y \in good : x >= y
                 e == StemEnd(name, ps[k])
             IN  [ok |-> TRUE, from |-> ps[k], to |-> e, ext |-> TailExt(name, e)]

\* what canonical() gives when the pattern does not match (match() is None
\* and .groups() raises AttributeError)
NoMatch == <<"<AttributeError>">>

canonical(name) ==
    LET g == Groups(name)
    IN  IF ~g.ok THEN NoMatch
        ELSE Lower(Strip(SubSeq(name, g.from, g.to)))
                 \o SubSeq(name, g.ext, Len(name))

(***************************************************************************)
(* canonical() on generated names.                                         *)
(***************************************************************************)
MarkerLit == <<" ","(","2",")">>

Tokens ==
    { CopyOfLit, <<"c","o","p","i","a"," ","D","E"," ">>,
      <<"a">>, <<"B">>, <<" ">>, <<" ","(","1",")">>, <<".">>, <<".","t">> }

RECURSIVE NamesOf(_)
NamesOf(n) ==
    IF n = 0 THEN {<<>>}
    ELSE LET shorter == NamesOf(n - 1)
         IN  shorter \cup {s \o t : s \in shorter, t \in Tokens}

BudgetXlsx == <<"B","u","d","g","e","t",".","x","l","s","x">>
CopyOfBudget2Xlsx ==
    CopyOfLit \o <<"B","u","d","g","e","t"," ","(","2",")",".","x","l","s","x">>

Names == (NamesOf(MaxTokens) \ {<<>>}) \cup {BudgetXlsx, CopyOfBudget2Xlsx}

\* name with " (2)" inserted at the end of its stem, before the extension
\* that canonical() finds in it
Marked(name) ==
    LET g == Groups(name)
    IN  SubSeq(name, 1, g.ext - 1) \o MarkerLit \o SubSeq(name, g.ext, Len(name))

None == <<"<None>">>

\* the parts of the state a specification does not use stay idle
IdleCanon ==
    /\ cName = None /\ cPhase = "idle" /\ cKey = None /\ cAgain = None
    /\ cCopyOf = None /\ cCopiaDe = None /\ cMarked = None

IdleRetry ==
    /\ gMaxTries = 0 /\ gAttempt = 0 /\ gDelay = 0 /\ gOuts = <<>>
    /\ gWaits = <<>> /\ gSleeps = <<>> /\ gStatus = "idle"

IdleRun ==
    /\ pc = "idle" /\ dst = <<>> /\ dated = <<>> /\ rotI = 0 /\ backup_root = 0
    /\ srcI = 0 /\ stack = <<>> /\ calls = <<>> /\ returns = <<>>
    /\ failedAt = [op |-> "", res |-> ""]

IdleDaily ==
    /\ mPc = "idle" /\ tree = <<>> /\ old = <<>> /\ del_stack = <<>> /\ deleted = <<>>
    /\ queue = <<>> /\ visited_folders = {} /\ found = <<>> /\ fid = ""
    /\ page_token = 0 /\ listed = <<>> /\ mI = 0 /\ backup = <<>> /\ mLast = ""

InitCanon ==
    /\ cName \in Names
    /\ cPhase = "given"
    /\ cKey = None /\ cAgain = None /\ cCopyOf = None
    /\ cCopiaDe = None /\ cMarked = None
    /\ IdleRetry
    /\ IdleRun
    /\ IdleDaily

CanonName ==
    /\ cPhase = "given"
    /\ cKey' = canonical(cName)
    /\ cPhase' = "keyed"
    /\ UNCHANGED <<cName, cAgain, cCopyOf, cCopiaDe, cMarked>>
    /\ UNCHANGED notCanon

CanonAgain ==
    /\ cPhase = "keyed"
    /\ cAgain' = canonical(cKey)
    /\ cPhase' = "again"
    /\ UNCHANGED <<cName, cKey, cCopyOf, cCopiaDe, cMarked>>
    /\ UNCHANGED notCanon

CanonCopyOf ==
    /\ cPhase = "again"
    /\ cCopyOf' = canonical(CopyOfLit \o cName)
    /\ cPhase' = "copyof"
    /\ UNCHANGED <<cName, cKey, cAgain, cCopiaDe, cMarked>>
    /\ UNCHANGED notCanon

CanonCopiaDe ==
    /\ cPhase = "copyof"
    /\ cCopiaDe' = canonical(CopiaDeLit \o cName)
    /\ cPhase' = "copiade"
    /\ UNCHANGED <<cName, cKey, cAgain, cCopyOf, cMarked>>
    /\ UNCHANGED notCanon

CanonMarked ==
    /\ cPhase = "copiade"
    /\ cMarked' = canonical(Marked(cName))
    /\ cPhase' = "done"
    /\ UNCHANGED <<cName, cKey, cAgain, cCopyOf, cCopiaDe>>
    /\ UNCHANGED notCanon

NextCanon ==
    \/ CanonName
    \/ CanonAgain
    \/ CanonCopyOf
    \/ CanonCopiaDe
    \/ CanonMarked

(***************************************************************************)
(* gapi_execute: the back-off wrapper.                                     *)
(***************************************************************************)
Ok == [kind |-> "ok", status |-> 200, body |-> ""]
Http(st, b) == [kind |-> "http", status |-> st, body |-> b]
Exc(type) == [kind |-> "exc", status |-> 0, body |-> type]

\* what one req.execute() can do: succeed, raise an HttpError, raise
\* another exception
HttpOutcomes ==
    {Http(st, "") : st \in {429, 500, 501, 502, 503, 504}}
        \cup {Http(404, "notFound")}
        \cup {Http(403, b) : b \in {"userRateLimitExceeded", "rateLimitExceeded",
                                    "storageQuotaExceeded", "forbidden"}}
ExcOutcomes ==
    {Exc(t) : t \in {"RefreshError", "SSLError", "timeout",
                     "ConnectionResetError", "ServerNotFoundError"}}
Outcomes == {Ok} \cup HttpOutcomes \cup ExcOutcomes

\* except TRANSIENT_EXC: HttpError, RefreshError, and every OSError
\* (ssl.SSLError, socket.timeout, ConnectionResetError, ... are OSErrors;
\* httplib2.ServerNotFoundError is not)
IsTransientExc(o) ==
    \/ o.kind = "http"
    \/ o.kind = "exc" /\ o.body \in {"RefreshError", "SSLError", "timeout",
                                      "ConnectionResetError"}

\* a wrapper that retried every 5xx status
RetriableAny5xx(o) ==
    \/ o.status = 429
    \/ o.status >= 500 /\ o.status <= 599
    \/ o.status = 403 /\ o.body \in {"userRateLimitExceeded", "rateLimitExceeded"}

\* the local retriable of gapi_execute, for an HttpError
Retriable(o) ==
    \/ o.status \in {429, 500, 502, 503, 504}
    \/ o.status = 403 /\ o.body \in {"userRateLimitExceeded", "rateLimitExceeded"}

\* one iteration of the loop: "return", "raise", or "sleep" and go round
Decide(o, attempt, max_tries) ==
    IF o.kind = "ok" THEN "return"
    ELSE IF ~IsTransientExc(o) THEN "raise"
    ELSE IF o.kind = "http" /\ ~Retriable(o) THEN "raise"
    ELSE IF attempt = max_tries THEN "raise"
    ELSE "sleep"

InitialDelay == 2

\* random.uniform(0, 1), in tenths of a second
Jitters == {0, 5, 10}

\* a back-off that stops doubling at 4 seconds
NextDelayCapped(delay) == IF delay * 2 > 4 THEN 4 ELSE delay * 2

\* delay *= 2
NextDelay(delay) == delay * 2

\* sleep_for = delay + random.uniform(0, 1), in tenths of a second
SleepFor(delay, jitter) == delay * 10 + jitter

InitRetry ==
    /\ gMaxTries \in 0..MaxTries
    /\ gAttempt = 1
    /\ gDelay = InitialDelay
    /\ gOuts = <<>>
    /\ gWaits = <<>>
    /\ gSleeps = <<>>
    /\ gStatus = "running"
    /\ IdleCanon
    /\ IdleRun
    /\ IdleDaily

\* one pass through the body of the for loop
GapiAttempt ==
    /\ gStatus = "running"
    /\ gAttempt <= gMaxTries
    /\ \E o \in Outcomes, j \in Jitters :
         LET d == Decide(o, gAttempt, gMaxTries)
         IN  /\ gOuts' = Append(gOuts, o)
             /\ gStatus' = CASE d = "return" -> "returned"
                              [] d = "raise" -> "raised"
                              [] OTHER -> "running"
             /\ gWaits' = IF d = "sleep" THEN Append(gWaits, gDelay) ELSE gWaits
             /\ gSleeps' = IF d = "sleep" THEN Append(gSleeps, SleepFor(gDelay, j))
                                          ELSE gSleeps
             /\ gDelay' = IF d = "sleep" THEN NextDelay(gDelay) ELSE gDelay
             /\ gAttempt' = IF d = "sleep" THEN gAttempt + 1 ELSE gAttempt
    /\ UNCHANGED gMaxTries
    /\ UNCHANGED notRetry

\* range(1, max_tries + 1) is empty: the function falls off its end
GapiFallThrough ==
    /\ gStatus = "running"
    /\ gAttempt > gMaxTries
    /\ gStatus' = "returned"
    /\ UNCHANGED <<gMaxTries, gAttempt, gDelay, gOuts, gWaits, gSleeps>>
    /\ UNCHANGED notRetry

NextRetry ==
    \/ GapiAttempt
    \/ GapiFallThrough

(***************************************************************************)
(* gapi_execute as a function of the outcomes its attempts meet, for the   *)
(* callers: every Drive call of the run goes through it.                   *)
(***************************************************************************)
DefaultMaxTries == 7

\* [ok, err, attempts]: the call returned, or raised err, after attempts
RECURSIVE GapiRun(_, _, _)
GapiRun(script, attempt, max_tries) ==
    IF attempt > max_tries \/ attempt > Len(script)
    THEN [ok |-> TRUE, err |-> Ok, attempts |-> attempt - 1]
    ELSE LET d == Decide(script[attempt], attempt, max_tries)
         IN  IF d = "return"
             THEN [ok |-> TRUE, err |-> Ok, attempts |-> attempt]
             ELSE IF d = "raise"
             THEN [ok |-> FALSE, err |-> script[attempt], attempts |-> attempt]
             ELSE GapiRun(script, attempt + 1, max_tries)

gapi_execute(script) == GapiRun(script, 1, DefaultMaxTries)

\* what the Drive service does to the attempts of one call
Scripts ==
    { <<Ok>>,
      <<Http(503, ""), Ok>>,
      <<Http(404, "notFound")>>,
      <<Http(403, "storageQuotaExceeded")>>,
      [i \in 1..DefaultMaxTries |-> Http(503, "")],
      [i \in 1..DefaultMaxTries |-> Exc("ConnectionResetError")] }

\* how a caller sees the exception gapi_execute raised: a quota-exceeded
\* HttpError (a 403 that is not a rate-limit 403), another HttpError, or an
\* exception that "except HttpError" does not catch
ErrClass(o) ==
    IF o.kind = "http" /\ o.status = 403
          /\ o.body \notin {"userRateLimitExceeded", "rateLimitExceeded"}
    THEN "quota"
    ELSE IF o.kind = "http" THEN "http"
    ELSE "exc"

CallResult(script) ==
    LET r == gapi_execute(script)
    IN  IF r.ok THEN "ok" ELSE ErrClass(r.err)

CallResults == {CallResult(s) : s \in Scripts}

\* an "except HttpError" clause around the call that catches only what is
\* not a quota failure
CaughtUnlessQuota(res) == res = "http"

\* except HttpError: (clone_folder's copy, main's metadata get)
Caught(res) == res \in {"http", "quota"}

(***************************************************************************)
(* Dates: datetime.strptime(name, DATE_FMT) and strftime(DATE_FMT) with    *)
(* DATE_FMT = "%d.%m.%Y".  A date is <<day, month, year>>.                 *)
(***************************************************************************)
DigitSeq == <<"0","1","2","3","4","5","6","7","8","9">>
DigitVal(c) == (CHOOSE i \in 1..10 : DigitSeq[i] = c) - 1

RECURSIVE NumVal(_)
NumVal(s) ==
    IF s = <<>> THEN 0
    ELSE 10 * NumVal(SubSeq(s, 1, Len(s) - 1)) + DigitVal(s[Len(s)])

DaysIn(m, y) ==
    IF m \in {4, 6, 9, 11} THEN 30
    ELSE IF m # 2 THEN 31
    ELSE IF (y % 4 = 0 /\ y % 100 # 0) \/ y % 400 = 0 THEN 29
    ELSE 28

\* strptime: [ok, date]; ok = FALSE stands for ValueError
ParseDate(name) ==
    LET dots == {i \in 1..Len(name) : name[i] = "."}
        bad  == [ok |-> FALSE, date |-> <<0, 0, 0>>]
    IN  IF Cardinality(dots) # 2 THEN bad
        ELSE LET p1 == CHOOSE i \in dots : \A j \in dots : i <= j
                 p2 == CHOOSE i \in dots : \A j \in dots : i >= j
                 ds == SubSeq(name, 1, p1 - 1)
                 ms == SubSeq(name, p1 + 1, p2 - 1)
                 ys == SubSeq(name, p2 + 1, Len(name))
             IN  IF \/ Len(ds) \notin {1, 2} \/ Len(ms) \notin {1, 2} \/ Len(ys) # 4
                    \/ \E i \in 1..Len(name) : i \notin dots /\ name[i] \notin Digits
                 THEN bad
                 ELSE LET d == NumVal(ds)
                          m == NumVal(ms)
                          y == NumVal(ys)
                      IN  IF m \in 1..12 /\ y >= 1 /\ d >= 1 /\ d <= DaysIn(m, y)
                          THEN [ok |-> TRUE, date |-> <<d, m, y>>]
                          ELSE bad

\* the order of two datetimes
DateKey(date) == date[3] * 10000 + date[2] * 100 + date[1]

TwoDigits(n) == <<DigitSeq[(n \div 10) + 1], DigitSeq[(n % 10) + 1]>>

\* strftime("%d.%m.%Y")
DateName(date) ==
    TwoDigits(date[1]) \o <<".">> \o TwoDigits(date[2]) \o <<".">>
        \o TwoDigits(date[3] \div 100) \o TwoDigits(date[3] % 100)

\* the key of dated.sort: the parsed date
SortKey(name) == DateKey(ParseDate(name).date)

\* list.sort(key = ..., reverse = True) on a sequence of [id, name]: stable
RECURSIVE InsertDesc(_, _)
InsertDesc(x, sorted) ==
    IF sorted = <<>> THEN <<x>>
    ELSE IF SortKey(Head(sorted).name) >= SortKey(x.name)
         THEN <<Head(sorted)>> \o InsertDesc(x, Tail(sorted))
         ELSE <<x>> \o sorted

RECURSIVE SortDesc(_)
SortDesc(s) ==
    IF s = <<>> THEN <<>>
    ELSE InsertDesc(s[Len(s)], SortDesc(SubSeq(s, 1, Len(s) - 1)))

\* the elements of a sequence that satisfy Test, in order
RECURSIVE SelectSeqIdx(_, _)
SelectSeqIdx(n, keep) ==
    IF n = 0 THEN <<>>
    ELSE IF n \in keep THEN Append(SelectSeqIdx(n - 1, keep), n)
    ELSE SelectSeqIdx(n - 1, keep)

(***************************************************************************)
(* The source side of the Drive: two folder sources and two single files.  *)
(***************************************************************************)
FOLDER_MIME == "application/vnd.google-apps.folder"
SHORTCUT_MIME == "application/vnd.google-apps.shortcut"
FILE_MIME == "application/octet-stream"

Item(n, m) == [name |-> n, mimeType |-> m]

SrcItems ==
    [ A  |-> Item(<<"A">>, FOLDER_MIME),
      a1 |-> Item(<<"B",".","t","x","t">>, FILE_MIME),
      a2 |-> Item(<<"B",".","t","x","t"," ","(","1",")">>, FILE_MIME),
      a3 |-> Item(<<"C","o","p","y"," ","o","f"," ","B",".","t","x","t">>, SHORTCUT_MIME),
      c  |-> Item(<<"C",".","t","x","t">>, FILE_MIME),
      D  |-> Item(<<"D">>, FOLDER_MIME),
      d1 |-> Item(<<"B","u","d","g","e","t",".","x","l","s","x">>, FILE_MIME),
      S  |-> Item(<<"S","u","b">>, FOLDER_MIME),
      s1 |-> Item(<<"C","o","p","y"," ","o","f"," ","B","u","d","g","e","t",".","x","l","s","x">>, FILE_MIME),
      d2 |-> Item(<<"C","o","p","y"," ","o","f"," ","B","u","d","g","e","t"," ","(","2",")",".","x","l","s","x">>, FILE_MIME),
      L  |-> Item(<<"L","n","k">>, SHORTCUT_MIME),
      E  |-> Item(<<"E">>, FOLDER_MIME),
      T  |-> Item(<<"T">>, FOLDER_MIME),
      t1 |-> Item(<<"t",".","t","x","t">>, FILE_MIME),
      X  |-> Item(<<"X",".","c","s","v">>, FILE_MIME),
      X2 |-> Item(<<"X",".","c","s","v">>, FILE_MIME) ]

\* shortcutDetails.targetId of the shortcuts
ShortcutTarget == [a3 |-> "c", L |-> "T"]

\* the children of each folder, in the order the service lists them; the
\* folder S has two parents, D and E
ChildrenOf ==
    [ A |-> <<"a1", "a2", "a3">>,
      D |-> <<"d1", "S", "d2", "L", "E">>,
      S |-> <<"s1">>,
      E |-> <<"S">>,
      T |-> <<"t1">> ]

\* SOURCES, with an id that is configured twice
SOURCES == <<"A", "D", "A", "X", "X2">>

\* dict.fromkeys(SOURCES): the ids in order, each once
RECURSIVE FromKeys(_)
FromKeys(s) ==
    IF s = <<>> THEN <<>>
    ELSE LET rest == FromKeys(SubSeq(s, 1, Len(s) - 1))
             x    == s[Len(s)]
         IN  IF \E i \in 1..Len(rest) : rest[i] = x THEN rest ELSE Append(rest, x)

\* one page of files().list(q = "'folder' in parents", pageToken = page):
\* the service hands out ChunkSize children per page; page 0 is None
ListPage(folder, page) ==
    LET all  == ChildrenOf[folder]
        last == IF page + ChunkSize < Len(all) THEN page + ChunkSize ELSE Len(all)
    IN  [files |-> SubSeq(all, page + 1, last),
         nextPageToken |-> IF last < Len(all) THEN last ELSE 0]

(***************************************************************************)
(* The destination side: the items under DEST_FOLDER_ID.  An item's id is  *)
(* its index in dst; 0 is DEST_FOLDER_ID itself.                           *)
(***************************************************************************)
DEST_FOLDER_ID == 0
NoId == -1
KEEP == 5

Today == <<2, 11, 2026>>

\* the dates of earlier weekly runs, in the order their folders are listed
OldDates ==
    << <<19, 10, 2026>>, <<5, 10, 2026>>, <<26, 10, 2026>>, <<28, 9, 2026>>,
       <<12, 10, 2026>>, <<14, 9, 2026>>, <<21, 9, 2026>>, <<7, 9, 2026>>,
       <<31, 8, 2026>>, <<24, 8, 2026>> >>

DstItem(n, p, m, s, mine) ==
    [name |-> n, parent |-> p, mimeType |-> m, src |-> s, owned |-> mine,
     live |-> TRUE]

MiscName == <<"m","i","s","c">>

\* DEST_FOLDER_ID before a run: n dated snapshots of earlier weeks, a folder
\* that is no snapshot, a dated folder of another owner and, when main has
\* already run today, today's snapshot
InitialDst(n, ranToday) ==
    [i \in 1..n |-> DstItem(DateName(OldDates[i]), DEST_FOLDER_ID, FOLDER_MIME, "", TRUE)]
        \o << DstItem(MiscName, DEST_FOLDER_ID, FOLDER_MIME, "", TRUE),
              DstItem(DateName(<<1, 1, 2026>>), DEST_FOLDER_ID, FOLDER_MIME, "", FALSE) >>
        \o (IF ranToday
            THEN <<DstItem(DateName(Today), DEST_FOLDER_ID, FOLDER_MIME, "", TRUE)>>
            ELSE <<>>)

\* i is id or lies below id
RECURSIVE Below(_, _, _)
Below(d, i, id) ==
    IF i = id THEN TRUE
    ELSE IF i <= 0 THEN FALSE
    ELSE Below(d, d[i].parent, id)

\* files().delete(fileId = id): the item and everything below it is gone
DeleteTree(d, id) ==
    [i \in 1..Len(d) |-> IF Below(d, i, id) THEN [d[i] EXCEPT !.live = FALSE] ELSE d[i]]

\* the query of rotate_backups: the untrashed folders in DEST_FOLDER_ID that
\* the account owns, as files(id, name)
ListOwnedFolders(d) ==
    LET keep == {i \in 1..Len(d) :
                    /\ d[i].live /\ d[i].parent = DEST_FOLDER_ID
                    /\ d[i].mimeType = FOLDER_MIME /\ d[i].owned}
        ids  == SelectSeqIdx(Len(d), keep)
    IN  [k \in 1..Len(ids) |-> [id |-> ids[k], name |-> d[ids[k]].name]]

\* rotate_backups calls files().list once and reads resp["files"] only: the
\* first page.  A page of this listing holds MaxOld + 1 folders, so that the
\* snapshots of MaxOld earlier weeks and one more folder fit on it
OwnedPageSize == MaxOld + 1
FirstPage(files) ==
    SubSeq(files, 1, IF Len(files) < OwnedPageSize THEN Len(files) ELSE OwnedPageSize)

\* the loop of rotate_backups that keeps the names strptime accepts
DatedOf(files) ==
    LET keep == {k \in 1..Len(files) : ParseDate(files[k].name).ok}
        ks   == SelectSeqIdx(Len(files), keep)
    IN  [j \in 1..Len(ks) |-> files[ks[j]]]

Sources == FromKeys(SOURCES)

\* a clone_folder that lists and copies without having made its folder
NewFrameListsFirst(sid, parent) ==
    [src_id |-> sid, dst_parent |-> parent, dst_id |-> NoId,
     copied |-> 0, dup |-> 0, processed |-> 0, dup_guard |-> {},
     page |-> 0, files |-> <<>>, next |-> 0, i |-> 1, at |-> "list"]

NewFrame(sid, parent) ==
    [src_id |-> sid, dst_parent |-> parent, dst_id |-> NoId,
     copied |-> 0, dup |-> 0, processed |-> 0, dup_guard |-> {},
     page |-> 0, files |-> <<>>, next |-> 0, i |-> 1, at |-> "get"]

Call(o, who, s, p, t, r) ==
    [op |-> o, by |-> who, src |-> s, parent |-> p, target |-> t, res |-> r]

NoFailure == [op |-> "", res |-> ""]

InitRun ==
    /\ pc = "rotate_list"
    /\ dst \in {InitialDst(n, t) : n \in 0..MaxOld, t \in BOOLEAN}
    /\ dated = <<>>
    /\ rotI = 0
    /\ backup_root = NoId
    /\ srcI = 1
    /\ stack = <<>>
    /\ calls = <<>>
    /\ returns = <<>>
    /\ failedAt = NoFailure
    /\ IdleCanon
    /\ IdleRetry
    /\ IdleDaily

\* the results a call can have now: a call fails only while fewer than
\* MaxFaults of the calls logged so far have failed
ResultsNow ==
    IF Cardinality({i \in 1..Len(calls) : calls[i].res # "ok"}) < MaxFaults
    THEN CallResults
    ELSE {"ok"}

Top == stack[Len(stack)]
SetTop(f) == [stack EXCEPT ![Len(stack)] = f]

\* ---- rotate_backups ----------------------------------------------------
RotateList ==
    /\ pc = "rotate_list"
    /\ \E r \in ResultsNow :
         IF r = "ok"
         THEN LET d == SortDesc(DatedOf(FirstPage(ListOwnedFolders(dst))))
              IN  /\ dated' = d
                  /\ rotI' = KEEP + 1
                  /\ pc' = IF Len(d) > KEEP THEN "rotate_delete" ELSE "create_root"
                  /\ failedAt' = failedAt
         ELSE /\ pc' = "failed"
              /\ failedAt' = [op |-> "rotate_list", res |-> r]
              /\ UNCHANGED <<dated, rotI>>
    /\ UNCHANGED <<dst, backup_root, srcI, stack, calls, returns>>
    /\ UNCHANGED notRun

RotateDelete ==
    /\ pc = "rotate_delete"
    /\ rotI <= Len(dated)
    /\ \E r \in ResultsNow :
         /\ calls' = Append(calls, Call("delete", "rotate", "", DEST_FOLDER_ID,
                                        dated[rotI].id, r))
         /\ IF r = "ok"
            THEN /\ dst' = DeleteTree(dst, dated[rotI].id)
                 /\ rotI' = rotI + 1
                 /\ pc' = IF rotI + 1 > Len(dated) THEN "create_root" ELSE "rotate_delete"
                 /\ failedAt' = failedAt
            ELSE /\ pc' = "failed"
                 /\ failedAt' = [op |-> "rotate_delete", res |-> r]
                 /\ UNCHANGED <<dst, rotI>>
    /\ UNCHANGED <<dated, backup_root, srcI, stack, returns>>
    /\ UNCHANGED notRun

\* ---- main --------------------------------------------------------------
CreateRoot ==
    /\ pc = "create_root"
    /\ \E r \in ResultsNow :
         /\ calls' = Append(calls, Call("create", "main", "", DEST_FOLDER_ID,
                                        IF r = "ok" THEN Len(dst) + 1 ELSE NoId, r))
         /\ IF r = "ok"
            THEN /\ dst' = Append(dst, DstItem(DateName(Today), DEST_FOLDER_ID,
                                               FOLDER_MIME, "", TRUE))
                 /\ backup_root' = Len(dst) + 1
                 /\ pc' = "source_get"
                 /\ failedAt' = failedAt
            ELSE /\ pc' = "failed"
                 /\ failedAt' = [op |-> "create_root", res |-> r]
                 /\ UNCHANGED <<dst, backup_root>>
    /\ UNCHANGED <<dated, rotI, srcI, stack, returns>>
    /\ UNCHANGED notRun

SourceGet ==
    /\ pc = "source_get"
    /\ srcI <= Len(Sources)
    /\ \E r \in ResultsNow :
         IF r = "ok"
         THEN IF SrcItems[Sources[srcI]].mimeType = FOLDER_MIME
              THEN /\ stack' = <<NewFrame(Sources[srcI], backup_root)>>
                   /\ pc' = "clone"
                   /\ UNCHANGED <<srcI, failedAt>>
              ELSE /\ pc' = "direct_list"
                   /\ UNCHANGED <<srcI, stack, failedAt>>
         ELSE IF Caught(r)
         THEN /\ srcI' = srcI + 1
              /\ UNCHANGED <<pc, stack, failedAt>>
         ELSE /\ pc' = "failed"
              /\ failedAt' = [op |-> "source_get", res |-> r]
              /\ UNCHANGED <<srcI, stack>>
    /\ UNCHANGED <<dst, dated, rotI, backup_root, calls, returns>>
    /\ UNCHANGED notRun

DirectList ==
    /\ pc = "direct_list"
    /\ \E r \in ResultsNow :
         IF r = "ok"
         THEN LET existing == {i \in 1..Len(dst) :
                                  /\ dst[i].live /\ dst[i].parent = backup_root
                                  /\ dst[i].name = SrcItems[Sources[srcI]].name}
              IN  IF existing # {}
                  THEN /\ srcI' = srcI + 1
                       /\ pc' = "source_get"
                       /\ failedAt' = failedAt
                  ELSE /\ pc' = "direct_copy"
                       /\ UNCHANGED <<srcI, failedAt>>
         ELSE /\ pc' = "failed"
              /\ failedAt' = [op |-> "direct_list", res |-> r]
              /\ srcI' = srcI
    /\ UNCHANGED <<dst, dated, rotI, backup_root, stack, calls, returns>>
    /\ UNCHANGED notRun

DirectCopy ==
    /\ pc = "direct_copy"
    /\ \E r \in ResultsNow :
         /\ calls' = Append(calls, Call("copy", "main", Sources[srcI], backup_root,
                                        IF r = "ok" THEN Len(dst) + 1 ELSE NoId, r))
         /\ IF r = "ok"
            THEN /\ dst' = Append(dst, DstItem(SrcItems[Sources[srcI]].name, backup_root,
                                               SrcItems[Sources[srcI]].mimeType,
                                               Sources[srcI], TRUE))
                 /\ srcI' = srcI + 1
                 /\ pc' = "source_get"
                 /\ failedAt' = failedAt
            ELSE /\ pc' = "failed"
                 /\ failedAt' = [op |-> "direct_copy", res |-> r]
                 /\ UNCHANGED <<dst, srcI>>
    /\ UNCHANGED <<dated, rotI, backup_root, stack, returns>>
    /\ UNCHANGED notRun

\* log.info("Backup completed")
Finish ==
    /\ pc = "source_get"
    /\ srcI > Len(Sources)
    /\ pc' = "done"
    /\ UNCHANGED <<dst, dated, rotI, backup_root, srcI, stack, calls, returns, failedAt>>
    /\ UNCHANGED notRun

\* ---- clone_folder ------------------------------------------------------
\* a duplicate guard that forgets the names it has let through
GuardForgets(guard, cn) == guard

\* dup_guard.add(cn)
GuardAdd(guard, cn) == guard \cup {cn}

\* a copy that lands beside the folder made for its parent
CopyParentIsCallerFolder(fr) == fr.dst_parent

\* body = {"name": f["name"], "parents": [dst_id]}
CopyParent(fr) == fr.dst_id

\* a count taken before the copy is called: a failed copy is counted too
CountedBeforeCall(fr, r) == [fr EXCEPT !.copied = @ + 1]

\* copied += 1 follows the copy call inside the try: it is not reached when
\* the call raises
Counted(fr, r) == IF r = "ok" THEN [fr EXCEPT !.copied = @ + 1] ELSE fr

\* src_name = gapi_execute(files().get(fileId = src_id, fields = "name"))
CloneGetName ==
    /\ pc = "clone"
    /\ Top.at = "get"
    /\ \E r \in ResultsNow :
         IF r = "ok"
         THEN /\ stack' = SetTop([Top EXCEPT !.at = "create"])
              /\ UNCHANGED <<pc, failedAt>>
         ELSE /\ pc' = "failed"
              /\ failedAt' = [op |-> "clone_get", res |-> r]
              /\ stack' = stack
    /\ UNCHANGED <<dst, dated, rotI, backup_root, srcI, calls, returns>>
    /\ UNCHANGED notRun

\* dst_id = gapi_execute(files().create(body = {name, FOLDER_MIME, parents}))
CloneCreate ==
    /\ pc = "clone"
    /\ Top.at = "create"
    /\ \E r \in ResultsNow :
         /\ calls' = Append(calls, Call("create", "clone", Top.src_id, Top.dst_parent,
                                        IF r = "ok" THEN Len(dst) + 1 ELSE NoId, r))
         /\ IF r = "ok"
            THEN /\ dst' = Append(dst, DstItem(SrcItems[Top.src_id].name, Top.dst_parent,
                                               FOLDER_MIME, Top.src_id, TRUE))
                 /\ stack' = SetTop([Top EXCEPT !.dst_id = Len(dst) + 1, !.at = "list"])
                 /\ UNCHANGED <<pc, failedAt>>
            ELSE /\ pc' = "failed"
                 /\ failedAt' = [op |-> "clone_create", res |-> r]
                 /\ UNCHANGED <<dst, stack>>
    /\ UNCHANGED <<dated, rotI, backup_root, srcI, returns>>
    /\ UNCHANGED notRun

\* resp = gapi_execute(files().list(q = "'src_id' in parents", pageToken = page))
CloneList ==
    /\ pc = "clone"
    /\ Top.at = "list"
    /\ \E r \in ResultsNow :
         IF r = "ok"
         THEN LET resp == ListPage(Top.src_id, Top.page)
              IN  /\ stack' = SetTop([Top EXCEPT !.files = resp.files,
                                                 !.next = resp.nextPageToken,
                                                 !.i = 1, !.at = "files"])
                  /\ UNCHANGED <<pc, failedAt>>
         ELSE /\ pc' = "failed"
              /\ failedAt' = [op |-> "clone_list", res |-> r]
              /\ stack' = stack
    /\ UNCHANGED <<dst, dated, rotI, backup_root, srcI, calls, returns>>
    /\ UNCHANGED notRun

\* one pass through "for f in resp['files']" for a sub-folder: the recursive
\* call starts
CloneEnter ==
    /\ pc = "clone"
    /\ Top.at = "files"
    /\ Top.i <= Len(Top.files)
    /\ SrcItems[Top.files[Top.i]].mimeType = FOLDER_MIME
    /\ stack' = Append(SetTop([Top EXCEPT !.processed = @ + 1, !.i = @ + 1]),
                       NewFrame(Top.files[Top.i], Top.dst_id))
    /\ UNCHANGED <<pc, dst, dated, rotI, backup_root, srcI, calls, returns, failedAt>>
    /\ UNCHANGED notRun

\* one pass for a child that is no folder and whose canonical name the guard
\* already holds
CloneDuplicate ==
    /\ pc = "clone"
    /\ Top.at = "files"
    /\ Top.i <= Len(Top.files)
    /\ SrcItems[Top.files[Top.i]].mimeType # FOLDER_MIME
    /\ canonical(SrcItems[Top.files[Top.i]].name) \in Top.dup_guard
    /\ stack' = SetTop([Top EXCEPT !.processed = @ + 1, !.i = @ + 1, !.dup = @ + 1])
    /\ UNCHANGED <<pc, dst, dated, rotI, backup_root, srcI, calls, returns, failedAt>>
    /\ UNCHANGED notRun

\* one pass for a child that is no folder and whose canonical name is new:
\* the name enters the guard and the copy is called inside try/except HttpError
CloneCopy ==
    /\ pc = "clone"
    /\ Top.at = "files"
    /\ Top.i <= Len(Top.files)
    /\ SrcItems[Top.files[Top.i]].mimeType # FOLDER_MIME
    /\ canonical(SrcItems[Top.files[Top.i]].name) \notin Top.dup_guard
    /\ LET f   == Top.files[Top.i]
           cn  == canonical(SrcItems[f].name)
           frm == [Top EXCEPT !.processed = @ + 1, !.i = @ + 1,
                              !.dup_guard = GuardAdd(@, cn)]
       IN  \E r \in ResultsNow :
             /\ calls' = Append(calls, Call("copy", "clone", f, CopyParent(Top),
                                            IF r = "ok" THEN Len(dst) + 1 ELSE NoId, r))
             /\ IF r = "ok"
                THEN /\ dst' = Append(dst, DstItem(SrcItems[f].name, CopyParent(Top),
                                                   SrcItems[f].mimeType, f, TRUE))
                     /\ stack' = SetTop(Counted(frm, r))
                     /\ UNCHANGED <<pc, failedAt>>
                ELSE IF Caught(r)
                THEN /\ stack' = SetTop(Counted(frm, r))
                     /\ UNCHANGED <<pc, dst, failedAt>>
                ELSE /\ pc' = "failed"
                     /\ failedAt' = [op |-> "clone_copy", res |-> r]
                     /\ UNCHANGED <<dst, stack>>
    /\ UNCHANGED <<dated, rotI, backup_root, srcI, returns>>
    /\ UNCHANGED notRun

\* page = resp.get("nextPageToken"), and there is one
CloneNextPage ==
    /\ pc = "clone"
    /\ Top.at = "files"
    /\ Top.i > Len(Top.files)
    /\ Top.next # 0
    /\ stack' = SetTop([Top EXCEPT !.page = Top.next, !.at = "list"])
    /\ UNCHANGED <<pc, dst, dated, rotI, backup_root, srcI, calls, returns, failedAt>>
    /\ UNCHANGED notRun

\* no page is left: return copied, dup -- to the clone_folder that called
\* (copied += c; dup += d) or to main, which goes on to the next source
CloneReturn ==
    /\ pc = "clone"
    /\ Top.at = "files"
    /\ Top.i > Len(Top.files)
    /\ Top.next = 0
    /\ returns' = Append(returns, [src_id |-> Top.src_id, dst_id |-> Top.dst_id,
                                   copied |-> Top.copied, dup |-> Top.dup])
    /\ IF Len(stack) > 1
       THEN LET caller == stack[Len(stack) - 1]
            IN  /\ stack' = [SubSeq(stack, 1, Len(stack) - 1) EXCEPT
                                ![Len(stack) - 1] =
                                    [caller EXCEPT !.copied = @ + Top.copied,
                                                   !.dup = @ + Top.dup]]
                /\ UNCHANGED <<pc, srcI>>
       ELSE /\ stack' = <<>>
            /\ srcI' = srcI + 1
            /\ pc' = "source_get"
    /\ UNCHANGED <<dst, dated, rotI, backup_root, calls, failedAt>>
    /\ UNCHANGED notRun

Next ==
    \/ RotateList
    \/ RotateDelete
    \/ CreateRoot
    \/ SourceGet
    \/ DirectList
    \/ DirectCopy
    \/ Finish
    \/ CloneGetName
    \/ CloneCreate
    \/ CloneList
    \/ CloneEnter
    \/ CloneDuplicate
    \/ CloneCopy
    \/ CloneNextPage
    \/ CloneReturn

(***************************************************************************)
(* main.py: the daily backup of the spreadsheets below SOURCE_FOLDER_ID.   *)
(* Its calls do not go through gapi_execute: each is a bare .execute().    *)
(***************************************************************************)
GOOGLE_SHEET == "application/vnd.google-apps.spreadsheet"
XLSX_MIME == "application/vnd.openxmlformats-officedocument.spreadsheetml.sheet"
XLS_MIME == "application/vnd.ms-excel"
PDF_MIME == "application/pdf"
EXCEL_MIMES == {XLSX_MIME, XLS_MIME}
TARGET_MIMES == {GOOGLE_SHEET} \cup EXCEL_MIMES

DItem(n, m, t) == [name |-> n, mimeType |-> m, targetId |-> t]

\* the items of the source drive; targetId is shortcutDetails.targetId
DriveItems ==
    [ R  |-> DItem(<<"root">>, FOLDER_MIME, ""),
      P  |-> DItem(<<"plans">>, FOLDER_MIME, ""),
      Q  |-> DItem(<<"quotes">>, FOLDER_MIME, ""),
      g1 |-> DItem(<<"sheet one">>, GOOGLE_SHEET, ""),
      g2 |-> DItem(<<"sheet two">>, GOOGLE_SHEET, ""),
      x1 |-> DItem(<<"book.xlsx">>, XLSX_MIME, ""),
      o1 |-> DItem(<<"notes.pdf">>, PDF_MIME, ""),
      k1 |-> DItem(<<"to sheet two">>, SHORTCUT_MIME, "g2"),
      kx |-> DItem(<<"to book">>, SHORTCUT_MIME, "x1"),
      kF |-> DItem(<<"to quotes">>, SHORTCUT_MIME, "Q") ]

DriveFolders == <<"R", "P", "Q">>
src_root == "R"

\* what each folder holds besides folders; g1 lies in two folders
FilesOf == [R |-> <<"g1", "k1">>, P |-> <<"x1", "o1", "kF">>, Q |-> <<"g1", "kx">>]

\* the parent-child pairs of folders a source drive may have, among them a
\* second parent for Q, a folder inside itself and cycles through the root
FolderEdges ==
    { <<"R", "P">>, <<"R", "Q">>, <<"P", "Q">>, <<"Q", "P">>, <<"P", "P">>, <<"Q", "R">> }

\* the listing of folder f when the folder pairs are E: its first file, its
\* sub-folders, its other files
TreeOf(E) ==
    [f \in {"R", "P", "Q"} |->
        LET subs == SelectSeq(DriveFolders, LAMBDA c : <<f, c>> \in E)
        IN  <<FilesOf[f][1]>> \o subs \o SubSeq(FilesOf[f], 2, Len(FilesOf[f]))]

Trees == {TreeOf(E) : E \in SUBSET FolderEdges}

\* one page of a listing all, asked for with pageToken = page (0 is None):
\* ChunkSize items and the token of the next page, 0 when there is none
PageOf(all, page) ==
    LET last == IF page + ChunkSize < Len(all) THEN page + ChunkSize ELSE Len(all)
    IN  [files |-> SubSeq(all, page + 1, last),
         nextPageToken |-> IF last < Len(all) THEN last ELSE 0]

\* found[key] = val on a dict kept as the sequence of its values: a key that
\* is present keeps its place
Put(fnd, val) ==
    IF \E i \in 1..Len(fnd) : fnd[i].id = val.id
    THEN [i \in 1..Len(fnd) |-> IF fnd[i].id = val.id THEN val ELSE fnd[i]]
    ELSE Append(fnd, val)

\* "for f in resp.get('files', [])" of gather_spreadsheets_and_excels
RECURSIVE GatherFiles(_, _, _)
GatherFiles(fs, q, fnd) ==
    IF fs = <<>> THEN [queue |-> q, found |-> fnd]
    ELSE LET f  == Head(fs)
             it == DriveItems[f]
             mt == it.mimeType
         IN  IF mt = FOLDER_MIME
             THEN GatherFiles(Tail(fs), Append(q, f), fnd)
             ELSE IF mt \in TARGET_MIMES
             THEN GatherFiles(Tail(fs), q,
                              Put(fnd, [id |-> f, name |-> it.name, mimeType |-> mt]))
             ELSE IF mt = SHORTCUT_MIME /\ DriveItems[it.targetId].mimeType \in TARGET_MIMES
             THEN GatherFiles(Tail(fs), q,
                              Put(fnd, [id |-> it.targetId,
                                        name |-> Append(it.name, " (shortcut)"),
                                        mimeType |-> DriveItems[it.targetId].mimeType]))
             ELSE GatherFiles(Tail(fs), q, fnd)

\* today's backup folder of an earlier run, when there is one: the children
\* of the folder "o" and of a folder "sub" inside it
OldKids(o, sub) == [o |-> o, sub |-> sub]
OldBackups ==
    { [exists |-> FALSE, kids |-> OldKids(<<>>, <<>>)],
      [exists |-> TRUE,  kids |-> OldKids(<<>>, <<>>)],
      [exists |-> TRUE,  kids |-> OldKids(<<"b1", "b2", "b3">>, <<>>)],
      [exists |-> TRUE,  kids |-> OldKids(<<"b1", "sub">>, <<"b4">>)] }
OldFolders == {"o", "sub"}

\* what one .execute() can do: succeed, raise HttpError 403, raise another
\* HttpError, raise another exception
DResults == {"ok", "h403", "http", "exc"}

NoLast == [op |-> "", res |-> ""]

DelFrame(id) == [folder_id |-> id, children |-> <<>>, i |-> 1]
DelTop == del_stack[Len(del_stack)]

InitDaily ==
    /\ mPc = "wipe_query"
    /\ tree \in Trees
    /\ old \in OldBackups
    /\ del_stack = <<>>
    /\ deleted = <<>>
    /\ queue = <<>>
    /\ visited_folders = {}
    /\ found = <<>>
    /\ fid = ""
    /\ page_token = 0
    /\ listed = <<>>
    /\ mI = 1
    /\ backup = <<>>
    /\ mLast = NoLast
    /\ IdleCanon
    /\ IdleRetry
    /\ IdleRun

\* sys.exit(1) after "except HttpError" or "except Exception" of main
Exit1(op, r) ==
    /\ mPc' = "exit1"
    /\ mLast' = [op |-> op, res |-> r]

worldV == <<tree, old>>
delV == <<del_stack, deleted>>
gatherV == <<queue, visited_folders, found, fid, page_token, listed>>
loopV == <<mI, backup>>

\* ---- main: wipe old folder ----------------------------------------------
\* existing = files().list(q = "... name = today ...").execute()
WipeQuery ==
    /\ mPc = "wipe_query"
    /\ \E r \in DResults :
         IF r = "ok"
         THEN /\ IF old.exists
                 THEN /\ del_stack' = <<DelFrame("o")>>
                      /\ mPc' = "del_list"
                 ELSE /\ del_stack' = del_stack
                      /\ mPc' = "create"
              /\ mLast' = mLast
         ELSE /\ Exit1("wipe_query", r)
              /\ del_stack' = del_stack
    /\ UNCHANGED <<worldV, deleted, gatherV, loopV>>
    /\ UNCHANGED notDaily

\* ---- delete_folder_recursive -------------------------------------------
\* children = files().list(q = "'folder_id' in parents").execute().get("files")
DelList ==
    /\ mPc = "del_list"
    /\ \E r \in DResults :
         IF r = "ok"
         THEN /\ del_stack' = [del_stack EXCEPT ![Len(del_stack)].children =
                                  PageOf(old.kids[DelTop.folder_id], 0).files]
              /\ mPc' = "del_children"
              /\ mLast' = mLast
         ELSE /\ Exit1("del_list", r)
              /\ del_stack' = del_stack
    /\ UNCHANGED <<worldV, deleted, gatherV, loopV>>
    /\ UNCHANGED notDaily

\* a child that is a folder: the recursive call starts
DelEnter ==
    /\ mPc = "del_children"
    /\ DelTop.i <= Len(DelTop.children)
    /\ DelTop.children[DelTop.i] \in OldFolders
    /\ del_stack' = Append([del_stack EXCEPT ![Len(del_stack)].i = @ + 1],
                           DelFrame(DelTop.children[DelTop.i]))
    /\ mPc' = "del_list"
    /\ UNCHANGED <<worldV, deleted, gatherV, loopV, mLast>>
    /\ UNCHANGED notDaily

\* a child that is no folder: files().delete(fileId = ch["id"]).execute()
DelChild ==
    /\ mPc = "del_children"
    /\ DelTop.i <= Len(DelTop.children)
    /\ DelTop.children[DelTop.i] \notin OldFolders
    /\ \E r \in DResults :
         IF r = "ok"
         THEN /\ deleted' = Append(deleted, DelTop.children[DelTop.i])
              /\ del_stack' = [del_stack EXCEPT ![Len(del_stack)].i = @ + 1]
              /\ UNCHANGED <<mPc, mLast>>
         ELSE /\ Exit1("del_child", r)
              /\ UNCHANGED <<deleted, del_stack>>
    /\ UNCHANGED <<worldV, gatherV, loopV>>
    /\ UNCHANGED notDaily

\* after the loop: files().delete(fileId = folder_id).execute(), and return
DelFolder ==
    /\ mPc = "del_children"
    /\ DelTop.i > Len(DelTop.children)
    /\ \E r \in DResults :
         IF r = "ok"
         THEN /\ deleted' = Append(deleted, DelTop.folder_id)
              /\ del_stack' = SubSeq(del_stack, 1, Len(del_stack) - 1)
              /\ mPc' = IF Len(del_stack) = 1 THEN "create" ELSE "del_children"
              /\ mLast' = mLast
         ELSE /\ Exit1("del_folder", r)
              /\ UNCHANGED <<deleted, del_stack>>
    /\ UNCHANGED <<worldV, gatherV, loopV>>
    /\ UNCHANGED notDaily

\* ---- main: create new backup folder, and the call of gather ------------
CreateBackup ==
    /\ mPc = "create"
    /\ \E r \in DResults :
         IF r = "ok"
         THEN /\ queue' = <<src_root>>
              /\ mPc' = "gather"
              /\ mLast' = mLast
         ELSE /\ Exit1("create", r)
              /\ queue' = queue
    /\ UNCHANGED <<worldV, delV, visited_folders, found, fid, page_token, listed, loopV>>
    /\ UNCHANGED notDaily

\* ---- gather_spreadsheets_and_excels ------------------------------------
\* a walk that does not remember the folders it has listed
VisitForgets(seen, f) == seen

\* visited_folders.add(fid)
Visit(seen, f) == seen \cup {f}

\* fid = queue.popleft(); if fid in visited_folders: continue
GatherSkip ==
    /\ mPc = "gather"
    /\ queue # <<>>
    /\ Head(queue) \in visited_folders
    /\ queue' = Tail(queue)
    /\ fid' = Head(queue)
    /\ UNCHANGED <<mPc, mLast, worldV, delV, visited_folders, found, page_token, listed, loopV>>
    /\ UNCHANGED notDaily

\* fid = queue.popleft(); visited_folders.add(fid); page_token = None
GatherVisit ==
    /\ mPc = "gather"
    /\ queue # <<>>
    /\ Head(queue) \notin visited_folders
    /\ queue' = Tail(queue)
    /\ fid' = Head(queue)
    /\ visited_folders' = Visit(visited_folders, Head(queue))
    /\ page_token' = 0
    /\ mPc' = "gather_list"
    /\ UNCHANGED <<mLast, worldV, delV, found, listed, loopV>>
    /\ UNCHANGED notDaily

\* one pass of "while True": the list call, the loop over its files, and
\* page_token = resp.get("nextPageToken")
GatherList ==
    /\ mPc = "gather_list"
    /\ \E r \in DResults :
         /\ listed' = Append(listed, [fid |-> fid, pageToken |-> page_token, res |-> r])
         /\ IF r = "ok"
            THEN LET resp == PageOf(tree[fid], page_token)
                     got  == GatherFiles(resp.files, queue, found)
                 IN  /\ queue' = got.queue
                     /\ found' = got.found
                     /\ page_token' = resp.nextPageToken
                     /\ mPc' = IF resp.nextPageToken = 0 THEN "gather" ELSE "gather_list"
                     /\ mLast' = mLast
            ELSE /\ Exit1("gather_list", r)
                 /\ UNCHANGED <<queue, found, page_token>>
    /\ UNCHANGED <<worldV, delV, visited_folders, fid, loopV>>
    /\ UNCHANGED notDaily

\* the queue is empty: return list(found.values())
GatherReturn ==
    /\ mPc = "gather"
    /\ queue = <<>>
    /\ mPc' = "loop"
    /\ UNCHANGED <<mLast, worldV, delV, gatherV, loopV>>
    /\ UNCHANGED notDaily

\* ---- main: the loop over the gathered files ----------------------------
Made(kind, f, mt) == [kind |-> kind, id |-> f.id, name |-> f.name, mimeType |-> mt]

\* a handler that falls back to a shortcut on every HttpError
FallsBackOnAnyHttpError(r) == r \in {"h403", "http"}

\* except HttpError as e: if status == 403: create_shortcut(...) else: raise
FallsBack(r) == r = "h403"

\* what an .execute() inside the try of the loop leads to when it did not
\* succeed: the shortcut fallback, or the end of the run
AfterFailure(op, r) ==
    IF FallsBack(r)
    THEN /\ mPc' = "shortcut"
         /\ mLast' = [op |-> op, res |-> r]
    ELSE Exit1(op, r)

\* a native Sheet: files().copy(fileId, body = {name, parents: [backup_id]})
LoopCopy ==
    /\ mPc = "loop"
    /\ mI <= Len(found)
    /\ found[mI].mimeType \notin EXCEL_MIMES
    /\ \E r \in DResults :
         IF r = "ok"
         THEN /\ backup' = Append(backup, Made("copy", found[mI], found[mI].mimeType))
              /\ mI' = mI + 1
              /\ UNCHANGED <<mPc, mLast>>
         ELSE /\ AfterFailure("copy", r)
              /\ UNCHANGED <<mI, backup>>
    /\ UNCHANGED <<worldV, delV, gatherV>>
    /\ UNCHANGED notDaily

\* an Excel file: MediaIoBaseDownload over get_media, chunk by chunk
LoopDownload ==
    /\ mPc = "loop"
    /\ mI <= Len(found)
    /\ found[mI].mimeType \in EXCEL_MIMES
    /\ \E r \in DResults :
         IF r = "ok"
         THEN /\ mPc' = "upload"
              /\ mLast' = mLast
         ELSE AfterFailure("download", r)
    /\ UNCHANGED <<worldV, delV, gatherV, loopV>>
    /\ UNCHANGED notDaily

\* files().create(body = {name, GOOGLE_SHEET, parents}, media_body = media)
LoopUpload ==
    /\ mPc = "upload"
    /\ \E r \in DResults :
         IF r = "ok"
         THEN /\ backup' = Append(backup, Made("converted", found[mI], GOOGLE_SHEET))
              /\ mI' = mI + 1
              /\ mPc' = "loop"
              /\ mLast' = mLast
         ELSE /\ AfterFailure("upload", r)
              /\ UNCHANGED <<mI, backup>>
    /\ UNCHANGED <<worldV, delV, gatherV>>
    /\ UNCHANGED notDaily

\* create_shortcut(drive, f["id"], f["name"], backup_id), inside the handler:
\* whatever it raises leaves the loop
LoopShortcut ==
    /\ mPc = "shortcut"
    /\ \E r \in DResults :
         IF r = "ok"
         THEN /\ backup' = Append(backup, Made("shortcut", found[mI], SHORTCUT_MIME))
              /\ mI' = mI + 1
              /\ mPc' = "loop"
              /\ mLast' = mLast
         ELSE /\ Exit1("create_shortcut", r)
              /\ UNCHANGED <<mI, backup>>
    /\ UNCHANGED <<worldV, delV, gatherV>>
    /\ UNCHANGED notDaily

\* log.info("Backup complete")
LoopDone ==
    /\ mPc = "loop"
    /\ mI > Len(found)
    /\ mPc' = "done"
    /\ UNCHANGED <<mLast, worldV, delV, gatherV, loopV>>
    /\ UNCHANGED notDaily

NextDaily ==
    \/ WipeQuery
    \/ DelList
    \/ DelEnter
    \/ DelChild
    \/ DelFolder
    \/ CreateBackup
    \/ GatherSkip
    \/ GatherVisit
    \/ GatherList
    \/ GatherReturn
    \/ LoopCopy
    \/ LoopDownload
    \/ LoopUpload
    \/ LoopShortcut
    \/ LoopDone

(***************************************************************************)
(* Specifications.                                                         *)
(***************************************************************************)
SpecCanon == InitCanon /\ [][NextCanon]_vars

SpecRetry == InitRetry /\ [][NextRetry]_vars

Spec == InitRun /\ [][Next]_vars

SpecDaily == InitDaily /\ [][NextDaily]_vars

\* main.py is one sequential process: whenever a step is possible the run
\* takes one
SpecDailyFair == InitDaily /\ [][NextDaily]_vars /\ WF_vars(NextDaily)

(***************************************************************************)
(* What the clone of a source folder is expected to do, read off the       *)
(* source tree.                                                            *)
(***************************************************************************)
\* canonical name of every source item
KeyTable == [id \in DOMAIN SrcItems |-> canonical(SrcItems[id].name)]
KeyOf(id) == KeyTable[id]
IsFile(id) == SrcItems[id].mimeType # FOLDER_MIME

\* the folder that lists id among its children
SrcParent(id) ==
    CHOOSE F \in DOMAIN ChildrenOf : \E j \in 1..Len(ChildrenOf[F]) : ChildrenOf[F][j] = id

\* position of id in the listing of its folder
Position(id) ==
    CHOOSE j \in 1..Len(ChildrenOf[SrcParent(id)]) : ChildrenOf[SrcParent(id)][j] = id

DistinctKeys(F) ==
    {KeyOf(ChildrenOf[F][j]) : j \in {x \in 1..Len(ChildrenOf[F]) : IsFile(ChildrenOf[F][x])}}

\* among the first n children of F: the non-folders that follow a non-folder
\* of the same canonical name
LaterSameKey(F, n) ==
    {j \in 1..n :
        /\ IsFile(ChildrenOf[F][j])
        /\ \E h \in 1..(j - 1) :
              IsFile(ChildrenOf[F][h]) /\ KeyOf(ChildrenOf[F][h]) = KeyOf(ChildrenOf[F][j])}

RECURSIVE TreeDup(_)
RECURSIVE SubDup(_, _, _)
\* duplicates in the sub-folders among the first n children of F, the
\* sub-folder skip left out
SubDup(F, n, skip) ==
    IF n = 0 THEN 0
    ELSE SubDup(F, n - 1, skip)
           + (IF ~IsFile(ChildrenOf[F][n]) /\ ChildrenOf[F][n] # skip
              THEN TreeDup(ChildrenOf[F][n]) ELSE 0)
TreeDup(F) ==
    Cardinality(LaterSameKey(F, Len(ChildrenOf[F]))) + SubDup(F, Len(ChildrenOf[F]), "")

CloneCopies == {i \in 1..Len(calls) : calls[i].op = "copy" /\ calls[i].by = "clone"}
CopiesInto(p) == {i \in CloneCopies : calls[i].parent = p}
FilesIn(p) ==
    {i \in 1..Len(dst) : dst[i].live /\ dst[i].parent = p /\ dst[i].mimeType # FOLDER_MIME}

(***************************************************************************)
(* C1: per destination folder and canonical key at most one copy call, for *)
(* the first child with that key in listing order; later children with the *)
(* key only count as duplicates.                                           *)
(***************************************************************************)
C1_OneCopyPerKey ==
    /\ \A i \in CloneCopies :
         LET f == calls[i].src
             F == dst[calls[i].parent].src
         IN  /\ SrcParent(f) = F
             /\ IsFile(f)
             /\ \A h \in 1..(Position(f) - 1) :
                   IsFile(ChildrenOf[F][h]) => KeyOf(ChildrenOf[F][h]) # KeyOf(f)
             /\ \A j \in CopiesInto(calls[i].parent) :
                   j # i => KeyOf(calls[j].src) # KeyOf(f)
    /\ \A s \in {x \in 1..Len(stack) : pc = "clone"} :
         LET fr    == stack[s]
             inner == IF s < Len(stack) THEN stack[s + 1].src_id ELSE ""
         IN  /\ fr.dup = Cardinality(LaterSameKey(fr.src_id, fr.processed))
                           + SubDup(fr.src_id, fr.processed, inner)
             /\ Cardinality(CopiesInto(fr.dst_id)) =
                   Cardinality({KeyOf(ChildrenOf[fr.src_id][j]) :
                                   j \in {x \in 1..fr.processed :
                                             IsFile(ChildrenOf[fr.src_id][x])}})
    /\ \A k \in 1..Len(returns) : returns[k].dup = TreeDup(returns[k].src_id)

\* the clone of D returned: Budget.xlsx of page one was copied, its namesake
\* of page two was counted
C1_Witness ==
    \E k \in 1..Len(returns) :
        /\ returns[k].src_id = "D"
        /\ returns[k].dup = 1
        /\ \E i \in CopiesInto(returns[k].dst_id) : calls[i].src = "d1"
        /\ \A i \in CopiesInto(returns[k].dst_id) : calls[i].src # "d2"

(***************************************************************************)
(* C2: files created in a destination folder against the distinct          *)
(* canonical keys of the source folder.                                    *)
(***************************************************************************)
\* C2 as claimed: after clone_folder returns, the destination folder holds
\* as many files as the source folder has distinct canonical keys among its
\* non-folder children, whatever the copy calls did.
C2_FilesEqualKeys ==
    \A k \in 1..Len(returns) :
        Cardinality(FilesIn(returns[k].dst_id))
            = Cardinality(DistinctKeys(returns[k].src_id))

\* C2 amended: the destination folder holds one file for each distinct key
\* whose copy call succeeded: the number of distinct keys less the number of
\* copy calls into it that failed.
C2_FilesEqualKeysCopied ==
    \A k \in 1..Len(returns) :
        LET p == returns[k].dst_id
        IN  /\ Cardinality(FilesIn(p)) =
                  Cardinality(DistinctKeys(returns[k].src_id))
                    - Cardinality({i \in CopiesInto(p) : calls[i].res # "ok"})
            /\ \A i, j \in FilesIn(p) :
                  i # j => KeyOf(dst[i].src) # KeyOf(dst[j].src)
            /\ \A i \in FilesIn(p) : SrcParent(dst[i].src) = returns[k].src_id

\* the clone of A returned with one copy failed and the others made
C2_Witness ==
    \E k \in 1..Len(returns) :
        /\ returns[k].src_id = "A"
        /\ \E i \in CopiesInto(returns[k].dst_id) : calls[i].res = "http"
        /\ FilesIn(returns[k].dst_id) # {}

(***************************************************************************)
(* C3: rotation keeps the KEEP newest dated snapshots and attempts the     *)
(* delete of every older one, whatever each delete does.                   *)
(***************************************************************************)
RotationEnded ==
    /\ pc \notin {"idle", "rotate_list", "rotate_delete"}
    /\ failedAt.op # "rotate_list"

\* C3: once rotate_backups has ended, of the dated folders it listed exactly
\* the KEEP newest are left, and every older one has had a delete attempted
\* (so a failed delete did not keep the next from being made).
C3_RotationKeepsNewest ==
    RotationEnded =>
        /\ {k \in 1..Len(dated) : dst[dated[k].id].live}
               = {k \in 1..Len(dated) : k <= KEEP}
        /\ \A k \in (KEEP + 1)..Len(dated) :
               \E i \in 1..Len(calls) :
                   calls[i].op = "delete" /\ calls[i].target = dated[k].id

(***************************************************************************)
(* C4: a rerun on the same date makes no second snapshot folder.           *)
(***************************************************************************)
TodaysSnapshots ==
    {i \in 1..Len(dst) :
        /\ dst[i].live /\ dst[i].parent = DEST_FOLDER_ID
        /\ dst[i].mimeType = FOLDER_MIME /\ dst[i].name = DateName(Today)}

\* C4: DEST_FOLDER_ID never holds two folders named with today's date, and
\* the folder main works in is the one that was there.
C4_OneSnapshotPerDate ==
    /\ Cardinality(TodaysSnapshots) <= 1
    /\ backup_root # NoId /\ pc # "idle" => backup_root \in TodaysSnapshots

(***************************************************************************)
(* C5: a quota-exceeded copy.                                              *)
(***************************************************************************)
OkCopiesBelow(id) ==
    {i \in CloneCopies : calls[i].res = "ok" /\ Below(dst, calls[i].parent, id)}

C6_ItemFailureNeverAborts ==
    pc = "failed" =>
        ~ /\ failedAt.res \in {"http", "exc"}
          /\ \/ failedAt.op \in {"clone_copy", "direct_copy"}
             \/ /\ failedAt.op \in {"clone_get", "clone_create", "clone_list"}
                /\ Len(stack) > 1

(***************************************************************************)
(* C9: the tree A/ (B.txt, B.txt (1), link).                               *)
(***************************************************************************)
\* C9: when every copy call succeeds, the clone of A returns copied = 1 and
\* duplicates = 2.
C9_ExampleTree ==
    \A k \in 1..Len(returns) :
        /\ returns[k].src_id = "A"
        /\ \A i \in CopiesInto(returns[k].dst_id) : calls[i].res = "ok"
        => returns[k].copied = 1 /\ returns[k].dup = 2

(***************************************************************************)
(* C10: a shortcut to a folder is walked as that folder.                   *)
(***************************************************************************)
FolderShortcuts(F) ==
    {ChildrenOf[F][j] : j \in {x \in 1..Len(ChildrenOf[F]) :
        /\ SrcItems[ChildrenOf[F][x]].mimeType = SHORTCUT_MIME
        /\ SrcItems[ShortcutTarget[ChildrenOf[F][x]]].mimeType = FOLDER_MIME}}

\* C10: when the clone of a folder has returned, each shortcut child whose
\* target is a folder has a destination folder of the shortcut's name, and a
\* copy call was issued into it for every file of the target folder.
C10_ShortcutToFolderWalked ==
    \A k \in 1..Len(returns) :
        \A l \in FolderShortcuts(returns[k].src_id) :
            \E p \in 1..Len(dst) :
                /\ dst[p].parent = returns[k].dst_id
                /\ dst[p].mimeType = FOLDER_MIME
                /\ dst[p].name = SrcItems[l].name
                /\ \A j \in 1..Len(ChildrenOf[ShortcutTarget[l]]) :
                      IsFile(ChildrenOf[ShortcutTarget[l]][j]) =>
                          \E i \in CopiesInto(p) :
                              calls[i].src = ChildrenOf[ShortcutTarget[l]][j]

(***************************************************************************)
(* C11: a configured source whose metadata get() fails is skipped.         *)
(***************************************************************************)
\* C11: whatever failure ends the metadata get() of a configured source
\* (not-found, forbidden, or a retryable failure that used up the tries), the
\* run is not ended by it: main goes on to the next source, and no create or
\* copy call has been issued for a source before its get() succeeded.
C11_InaccessibleSourceSkipped ==
    /\ failedAt.op # "source_get"
    /\ pc = "source_get" /\ srcI <= Len(Sources) =>
          \A i \in 1..Len(calls) : calls[i].src # Sources[srcI]

(***************************************************************************)
(* C13: the clone walks each source folder once.                           *)
(***************************************************************************)
CloneCreates == {i \in 1..Len(calls) : calls[i].op = "create" /\ calls[i].by = "clone"}

\* C13: within the walk of one configured source, clone_folder is entered at
\* most once for a source folder id: no two of the folders it created below
\* one snapshot entry are clones of the same source folder, and no source
\* folder is being cloned inside a clone of itself.
C13_FolderClonedOnce ==
    /\ \A i, j \in CloneCreates :
          i # j /\ calls[i].src = calls[j].src =>
              \A t \in 1..Len(dst) :
                  dst[t].parent = backup_root =>
                      ~ (/\ calls[i].res = "ok" /\ calls[j].res = "ok"
                         /\ Below(dst, calls[i].target, t)
                         /\ Below(dst, calls[j].target, t))
    /\ \A a, b \in 1..Len(stack) : a # b => stack[a].src_id # stack[b].src_id

(***************************************************************************)
(* C14: a destination folder is created before anything is put into it.    *)
(***************************************************************************)
CreatedBefore(p, i) ==
    \E h \in 1..(i - 1) :
        calls[h].op = "create" /\ calls[h].res = "ok" /\ calls[h].target = p

\* C14: every copy call and every create-folder call of clone_folder names
\* as parent a folder id that an earlier, successful create call returned;
\* main's own copies go into the snapshot folder its create returned; only
\* main's create of the snapshot folder names DEST_FOLDER_ID.
C14_CreateBeforeUse ==
    /\ \A i \in 1..Len(calls) :
          calls[i].op \in {"copy", "create"} =>
              IF calls[i].by = "main" /\ calls[i].op = "create"
              THEN calls[i].parent = DEST_FOLDER_ID
              ELSE /\ CreatedBefore(calls[i].parent, i)
                   /\ dst[calls[i].parent].mimeType = FOLDER_MIME
    /\ \A i \in 1..Len(calls) :
          calls[i].by = "main" /\ calls[i].op = "copy" =>
              calls[i].parent = backup_root
    /\ \A s \in 1..Len(stack) :
          stack[s].at \in {"list", "files"} =>
              \E h \in 1..Len(calls) :
                  /\ calls[h].op = "create" /\ calls[h].res = "ok"
                  /\ calls[h].target = stack[s].dst_id

\* a file was copied into the folder made for a sub-folder, and a folder was
\* made inside a folder made by clone_folder
C14_Witness ==
    /\ \E i \in CloneCopies :
          /\ calls[i].res = "ok"
          /\ dst[calls[i].parent].parent # backup_root
    /\ \E i \in CloneCreates :
          calls[i].res = "ok" /\ calls[i].parent # backup_root

(***************************************************************************)
(* C17: what clone_folder returns.                                         *)
(***************************************************************************)
RECURSIVE TreeFiles(_)
RECURSIVE SubFiles(_, _)
\* the non-folder items met by a walk of F, one count per path
SubFiles(F, n) ==
    IF n = 0 THEN 0
    ELSE SubFiles(F, n - 1)
           + (IF IsFile(ChildrenOf[F][n]) THEN 1 ELSE TreeFiles(ChildrenOf[F][n]))
TreeFiles(F) == SubFiles(F, Len(ChildrenOf[F]))

CopiesBelow(id) == {i \in CloneCopies : Below(dst, calls[i].parent, id)}

\* C17: clone_folder returns copied = the copy calls below its folder that
\* succeeded and dup = the non-folder items the guard suppressed, that is the
\* items for which no copy call was issued; copied + dup is at most the
\* number of non-folder items, and equal exactly when no copy call failed; a
\* key whose copy call failed gets no second copy call in that folder.
C17_CopiedAndDupCounts ==
    /\ \A k \in 1..Len(returns) :
          LET r == returns[k]
          IN  /\ r.copied = Cardinality({i \in CopiesBelow(r.dst_id) : calls[i].res = "ok"})
              /\ r.dup = TreeFiles(r.src_id) - Cardinality(CopiesBelow(r.dst_id))
              /\ r.dup = TreeDup(r.src_id)
              /\ r.copied + r.dup <= TreeFiles(r.src_id)
              /\ (r.copied + r.dup = TreeFiles(r.src_id))
                    <=> (\A i \in CopiesBelow(r.dst_id) : calls[i].res = "ok")
    /\ \A i \in CloneCopies :
          calls[i].res # "ok" =>
              /\ \A j \in CopiesInto(calls[i].parent) :
                    j # i => KeyOf(calls[j].src) # KeyOf(calls[i].src)
              /\ \A t \in FilesIn(calls[i].parent) : KeyOf(dst[t].src) # KeyOf(calls[i].src)

\* the clone of D returned after the copy of Budget.xlsx failed: its later
\* namesake was counted as a duplicate and not copied in its place
C17_Witness ==
    \E k \in 1..Len(returns) :
        /\ returns[k].src_id = "D"
        /\ returns[k].dup = 1
        /\ returns[k].copied + returns[k].dup < TreeFiles("D")
        /\ \E i \in CopiesInto(returns[k].dst_id) :
              calls[i].src = "d1" /\ calls[i].res = "http"
        /\ \A t \in FilesIn(returns[k].dst_id) : dst[t].src \notin {"d1", "d2"}

(***************************************************************************)
(* C16: every listing is read to its last page.                            *)
(***************************************************************************)
OwnedDated ==
    {i \in 1..Len(dst) :
        /\ dst[i].live /\ dst[i].parent = DEST_FOLDER_ID
        /\ dst[i].mimeType = FOLDER_MIME /\ dst[i].owned
        /\ ParseDate(dst[i].name).ok}

\* C16: rotate_backups has seen every dated folder the account owns in
\* DEST_FOLDER_ID, on whatever page of the listing it lies, and a clone_folder
\* that returned has processed every child of its source folder: a copy call
\* for the canonical name of each non-folder child, a create call for each
\* sub-folder.
C16_ListingsExhausted ==
    /\ pc \in {"rotate_delete", "create_root"} /\ calls = <<>> =>
          {dated[k].id : k \in 1..Len(dated)} = OwnedDated
    /\ \A k \in 1..Len(returns) :
          \A n \in 1..Len(ChildrenOf[returns[k].src_id]) :
              LET c == ChildrenOf[returns[k].src_id][n]
              IN  IF IsFile(c)
                  THEN \E i \in CopiesInto(returns[k].dst_id) : KeyOf(calls[i].src) = KeyOf(c)
                  ELSE \E i \in CloneCreates :
                          calls[i].src = c /\ calls[i].parent = returns[k].dst_id

(***************************************************************************)
(* C15: the waits of gapi_execute.                                         *)
(***************************************************************************)
RECURSIVE Pow2(_)
Pow2(n) == IF n = 0 THEN 1 ELSE 2 * Pow2(n - 1)

\* the ceilings a budget of MaxTries tries can pass: every number of seconds
\* below the base delay of its last retry
Ceilings == 1..(Pow2(MaxTries - 1) - 1)

WaitsDoubleWithJitter ==
    /\ Len(gSleeps) = Len(gWaits)
    /\ \A k \in 1..Len(gWaits) :
          /\ gWaits[k] = (IF k = 1 THEN InitialDelay ELSE 2 * gWaits[k - 1])
          /\ gSleeps[k] - 10 * gWaits[k] \in 0..10

RECURSIVE ReachableFrom(_, _)
\* the folder ids reachable from the folders in seen through the listings
ReachableFrom(t, seen) ==
    LET more == {c \in DOMAIN t : \E f \in seen : \E n \in 1..Len(t[f]) : t[f][n] = c}
    IN  IF more \subseteq seen THEN seen ELSE ReachableFrom(t, seen \cup more)

FirstListings == {i \in 1..Len(listed) : listed[i].pageToken = 0}
InGather == mPc \in {"gather", "gather_list"}

GatherListsOnce ==
    /\ \A i, j \in 1..Len(listed) :
          listed[i].fid = listed[j].fid /\ listed[i].pageToken = listed[j].pageToken
              => i = j
    /\ \A i \in 1..Len(listed) : listed[i].fid \in visited_folders
    /\ visited_folders \subseteq ReachableFrom(tree, {src_root})
    /\ Cardinality(FirstListings) <= Cardinality(ReachableFrom(tree, {src_root}))
    /\ mPc = "gather" /\ queue # <<>> /\ Head(queue) \in visited_folders =>
          \E i \in FirstListings : listed[i].fid = Head(queue)

\* C12: on every folder graph, with folders of several parents and cycles,
\* gather lists each page of each folder at most once, so it starts at most
\* one listing per reachable folder id (an id popped again is already listed
\* and is skipped), and a gather that has started ends.
C12_GatherTerminates ==
    /\ []GatherListsOnce
    /\ (InGather ~> ~InGather)

\* gather returned from a drive where the root lies inside Q and Q has two
\* parents: all three folders were listed, each once
C12_Witness ==
    /\ mPc = "loop"
    /\ \E n \in 1..Len(tree["Q"]) : tree["Q"][n] = "R"
    /\ \E n \in 1..Len(tree["P"]) : tree["P"][n] = "Q"
    /\ \E n \in 1..Len(tree["R"]) : tree["R"][n] = "Q"
    /\ visited_folders = {"R", "P", "Q"}
    /\ Cardinality(FirstListings) = 3

(***************************************************************************)
(* C18: main.py leaves a copy, a converted upload or a shortcut of every   *)
(* gathered file, or ends with exit status 1.                              *)
(***************************************************************************)
LoopCalls == {"copy", "download", "upload"}

\* C18: after "Backup complete" the new backup folder holds, for every file
\* gather returned and in that order, a copy (native Sheet), a converted
\* upload (Excel) or a shortcut; a shortcut is only made after a 403 of the
\* copy, download or upload; any other failure of these calls and any
\* failure of create_shortcut ends the run with exit status 1, the files
\* after the failing one untouched.
C18_FallbackOrExit ==
    mPc # "idle" =>
    /\ mPc = "done" =>
          /\ Len(backup) = Len(found)
          /\ \A i \in 1..Len(found) :
                /\ backup[i].id = found[i].id
                /\ backup[i].name = found[i].name
                /\ \/ /\ backup[i].kind = "copy"
                      /\ found[i].mimeType \notin EXCEL_MIMES
                      /\ backup[i].mimeType = found[i].mimeType
                   \/ /\ backup[i].kind = "converted"
                      /\ found[i].mimeType \in EXCEL_MIMES
                      /\ backup[i].mimeType = GOOGLE_SHEET
                   \/ /\ backup[i].kind = "shortcut"
                      /\ backup[i].mimeType = SHORTCUT_MIME
    /\ mPc = "shortcut" => mLast.res = "h403" /\ mLast.op \in LoopCalls
    /\ mLast.op \in LoopCalls /\ mLast.res # "h403" => mPc = "exit1"
    /\ mLast.op = "create_shortcut" => mPc = "exit1"
    /\ mPc = "exit1" /\ mLast.op \in LoopCalls \cup {"create_shortcut"} =>
          /\ mI <= Len(found)
          /\ Len(backup) = mI - 1
          /\ \A i \in 1..Len(backup) : backup[i].id = found[i].id
    /\ Len(backup) <= Len(found)

\* a run that ended with "Backup complete" and left a copy, a converted
\* upload and a shortcut
C18_Witness ==
    /\ mPc = "done"
    /\ \E i \in 1..Len(backup) : backup[i].kind = "copy"
    /\ \E i \in 1..Len(backup) : backup[i].kind = "converted"
    /\ \E i \in 1..Len(backup) : backup[i].kind = "shortcut"
    /\ mLast.res = "h403"

(***************************************************************************)
(* C7: gapi_execute makes attempt k+1 exactly when attempts 1..k all       *)
(* failed with a retryable failure and k < max_tries.                      *)
(***************************************************************************)
TransportFailure(o) ==
    o.kind = "exc" /\ o.body \in {"RefreshError", "SSLError", "timeout",
                                  "ConnectionResetError"}

\* Retryable as the claim lists it: 429, any 5xx, rate-limit 403,
\* transport failures, credential-refresh failure
ClaimedRetryable(o) ==
    \/ TransportFailure(o)
    \/ o.kind = "http" /\ o.status = 429
    \/ o.kind = "http" /\ o.status \in 500..599
    \/ o.kind = "http" /\ o.status = 403
          /\ o.body \in {"userRateLimitExceeded", "rateLimitExceeded"}

\* Retryable with the five statuses the wrapper names
ListedRetryable(o) ==
    \/ TransportFailure(o)
    \/ o.kind = "http" /\ o.status \in {429, 500, 502, 503, 504}
    \/ o.kind = "http" /\ o.status = 403
          /\ o.body \in {"userRateLimitExceeded", "rateLimitExceeded"}

\* the wrapper is about to call req.execute() once more
MakesNextAttempt == gStatus = "running" /\ gAttempt <= gMaxTries

\* what the claim says besides the retry rule: the budget, the result
\* returned, the failure raised, and no sleep before a terminal failure
RetryOutcome ==
    LET k == Len(gOuts)
    IN  /\ k <= gMaxTries
        /\ gStatus = "running" => gAttempt = k + 1
        /\ Len(gWaits) = (IF gStatus = "running" \/ k = 0 THEN k ELSE k - 1)
        /\ gStatus = "returned" /\ k > 0 =>
              /\ gOuts[k] = Ok
              /\ \A i \in 1..(k - 1) : gOuts[i] # Ok
        /\ gStatus = "returned" /\ k = 0 => gMaxTries = 0
        /\ gStatus = "raised" => k > 0 /\ gOuts[k] # Ok
        /\ gStatus = "raised" /\ gOuts[1].kind = "http"
              /\ gOuts[1].status \in {403, 404}
              /\ gOuts[1].body \in {"notFound", "forbidden", "storageQuotaExceeded"}
              => k = 1 /\ gWaits = <<>>

\* C7 as claimed (Retryable includes every 5xx status): in every state of a
\* call, one more attempt is made iff all attempts so far failed with a
\* Retryable failure and fewer than max_tries were made.
C7_AnyServerErrorRetried ==
    gStatus # "idle" =>
        /\ MakesNextAttempt <=>
              /\ \A i \in 1..Len(gOuts) : ClaimedRetryable(gOuts[i])
              /\ Len(gOuts) < gMaxTries
        /\ RetryOutcome

\* C7 amended: the same with Retryable read as HTTP 429, 500, 502, 503, 504,
\* rate-limit 403, transport failure or credential-refresh failure.
C7_RetryRule ==
    gStatus # "idle" =>
        /\ MakesNextAttempt <=>
              /\ \A i \in 1..Len(gOuts) : ListedRetryable(gOuts[i])
              /\ Len(gOuts) < gMaxTries
        /\ RetryOutcome

\* a call that used up its budget of at least two attempts and raised
C7_Witness ==
    /\ gStatus = "raised"
    /\ gMaxTries >= 2
    /\ Len(gOuts) = gMaxTries
    /\ \A i \in 1..Len(gOuts) : ListedRetryable(gOuts[i])

(***************************************************************************)
(* C8: canonical is idempotent and invariant under duplicate markers.      *)
(***************************************************************************)
StemOf(name) == SubSeq(name, Groups(name).from, Groups(name).to)

\* the stem canonical captures has no white space around it
TrimmedStem(name) ==
    LET st == StemOf(name)
    IN  st # <<>> /\ st[1] # " " /\ st[Len(st)] # " "

\* the stem canonical captures still ends in a marker " (d)"
StemEndsInMarker(name) ==
    LET st == StemOf(name)
    IN  \E i \in 1..Len(st) : MarkerEnd(st, i) = Len(st)

\* the pattern found a marker " (d)" between stem and extension
HasMarker(name) == Groups(name).ext > Groups(name).to + 1

BudgetKey == <<"b","u","d","g","e","t",".","x","l","s","x">>

\* C8 as claimed: for every name, canonical applied twice, and canonical of
\* the name with "Copy of ", with "Copia de " or with " (d)" added, all equal
\* canonical of the name.
C8_MarkersAndIdempotence ==
    cPhase = "done" =>
        /\ cAgain = cKey
        /\ cCopyOf = cKey
        /\ cCopiaDe = cKey
        /\ cMarked = cKey

\* C8 amended: prefix invariance for every name; idempotence when the
\* captured stem is trimmed and does not end in a marker; marker invariance
\* when, besides, the name has no marker yet and its stem does not end in a
\* dot; and the Budget example.
C8_CanonicalInvariance ==
    cPhase = "done" =>
        /\ cCopyOf = cKey
        /\ cCopiaDe = cKey
        /\ TrimmedStem(cName) /\ ~StemEndsInMarker(cName) => cAgain = cKey
        /\ TrimmedStem(cName) /\ ~HasMarker(cName)
              /\ cName[Groups(cName).to] # "." => cMarked = cKey
        /\ cName \in {BudgetXlsx, CopyOfBudget2Xlsx} => cKey = BudgetKey

\* a name with upper case and an extension, all variants canonicalized
C8_Witness ==
    /\ cPhase = "done"
    /\ TrimmedStem(cName) /\ ~HasMarker(cName)
    /\ Groups(cName).ext <= Len(cName)
    /\ cKey # cName
    /\ cMarked = cKey /\ cAgain = cKey /\ cCopiaDe = cKey

====
